---- MODULE Spec2Model ----
(***************************************************************************)
(* sm2env: fetch a secret from AWS Secrets Manager and materialise it as   *)
(* preview text, .env, JSON, YAML or CSV (src/src/main.rs).                *)
(*                                                                         *)
(* Text is a sequence of one-character strings.  File contents are tagged  *)
(* records: [text |-> chars] for what fs::write gets as a string,          *)
(* [bytes |-> ints] for a raw binary write and [yaml |-> value] for the    *)
(* document handed to serde_yaml::to_string (the YAML scalar styles are    *)
(* not modelled: that file is identified with the value it serialises).    *)
(***************************************************************************)
EXTENDS Integers, Sequences, FiniteSets, TLC

VARIABLES
    response,       \* GetSecretValue output: [secret_string, secret_binary], both Option
    output_format,  \* --output of the invocation being run ("unset" before it runs)
    file,           \* --file of the invocation: Option path
    pc,             \* "start" | "written" | "paging" | "done"
    fs,             \* the file system: path -> Option content
    writes,         \* every fs::write attempted: <<[path, content, ok]>>
    stdout,         \* what println! printed, in order
    pending,        \* the lines the call prints after its write
    result,         \* "none" | "Ok" | "Err": what the command returned
    payload,        \* the classified payload get_secret handed on (the RawPayload)
    store,          \* ListSecrets pages the service holds
    filter,         \* --filter of the list invocation: Option text
    next_token,     \* list_secrets: Option token
    secrets,        \* list_secrets: names collected so far
    requests        \* list_secrets: the tokens of the requests sent, in order

vars == <<response, output_format, file, pc, fs, writes, stdout, pending, result,
          payload, store, filter, next_token, secrets, requests>>

(***************************************************************************)
(* Bounds of the model.                                                    *)
(***************************************************************************)
MaxTextLen == 3
MaxLines == 2
MaxMembers == 2
MaxBytes == 2
MaxPages == 2
MaxPageLen == 2

(***************************************************************************)
(* Option<T>                                                               *)
(***************************************************************************)
NONE == [some |-> FALSE]
Some(x) == [some |-> TRUE, val |-> x]

(***************************************************************************)
(* Characters and the str methods the program uses.                        *)
(***************************************************************************)
QUOTE == "\""
LF == "\n"
CR == "\r"
EQ == "="
COMMA == ","
HASH == "#"
SPACE == " "
BACKSLASH == "\\"

\* char::is_whitespace, restricted to the characters that occur in the model
IsWhitespace(c) == c \in {SPACE, LF, CR, "\t"}

\* the byte of each character that can occur in a key or a secret name
\* (String's Ord compares bytes)
CharCode(c) ==
    CASE c = "\t" -> 9
      [] c = LF -> 10
      [] c = CR -> 13
      [] c = SPACE -> 32
      [] c = QUOTE -> 34
      [] c = HASH -> 35
      [] c = COMMA -> 44
      [] c = "-" -> 45
      [] c = "1" -> 49
      [] c = EQ -> 61
      [] c = "A" -> 65
      [] c = "B" -> 66
      [] c = "a" -> 97
      [] c = "b" -> 98
      [] c = "c" -> 99
      [] c = "d" -> 100

RECURSIVE StrLess(_, _)
\* s < t for two Strings
StrLess(s, t) ==
    IF t = <<>> THEN FALSE
    ELSE IF s = <<>> THEN TRUE
    ELSE IF Head(s) = Head(t) THEN StrLess(Tail(s), Tail(t))
    ELSE CharCode(Head(s)) < CharCode(Head(t))

\* str::contains(char)
Contains(s, c) == \E i \in 1..Len(s) : s[i] = c

\* str::contains(&str): a substring
ContainsStr(s, f) ==
    \E i \in 0..(Len(s) - Len(f)) : SubSeq(s, i + 1, i + Len(f)) = f

\* str::ends_with(char)
EndsWith(s, c) == Len(s) > 0 /\ s[Len(s)] = c

\* str::starts_with(char)
StartsWith(s, c) == Len(s) > 0 /\ s[1] = c

\* str::find(char): the 1-based index of the first c, 0 for None
Find(s, c) ==
    IF Contains(s, c) THEN CHOOSE i \in 1..Len(s) :
                              s[i] = c /\ \A j \in 1..(i - 1) : s[j] # c
    ELSE 0

\* the characters of s from index i on
From(s, i) == SubSeq(s, i, Len(s))

\* the index of the first character of s outside the set cs (Len(s)+1 if none)
FirstNotIn(s, cs) ==
    IF \E i \in 1..Len(s) : s[i] \notin cs
    THEN CHOOSE i \in 1..Len(s) : s[i] \notin cs /\ \A j \in 1..(i - 1) : s[j] \in cs
    ELSE Len(s) + 1

\* the index of the last character of s outside the set cs (0 if none)
LastNotIn(s, cs) ==
    IF \E i \in 1..Len(s) : s[i] \notin cs
    THEN CHOOSE i \in 1..Len(s) :
            s[i] \notin cs /\ \A j \in (i + 1)..Len(s) : s[j] \in cs
    ELSE 0

\* str::trim_matches(c): every leading and every trailing c removed
TrimMatches(s, c) == SubSeq(s, FirstNotIn(s, {c}), LastNotIn(s, {c}))

\* str::trim(): leading and trailing whitespace removed
Trim(s) == SubSeq(s, FirstNotIn(s, {SPACE, LF, CR, "\t"}),
                     LastNotIn(s, {SPACE, LF, CR, "\t"}))

RECURSIVE Lines(_)
\* str::lines(): split at "\n", a "\r" right before it dropped with it; the
\* final line needs no terminator, and a bare trailing "\r" stays
Lines(text) ==
    IF text = <<>> THEN <<>>
    ELSE LET i == Find(text, LF)
         IN IF i = 0 THEN <<text>>
            ELSE LET raw == SubSeq(text, 1, i - 1)
                     line == IF EndsWith(raw, CR) THEN SubSeq(raw, 1, Len(raw) - 1)
                             ELSE raw
                 IN <<line>> \o Lines(From(text, i + 1))

RECURSIVE Concat(_)
\* the concatenation of a sequence of strings
Concat(ss) == IF ss = <<>> THEN <<>> ELSE Head(ss) \o Concat(Tail(ss))

(***************************************************************************)
(* serde_json::Value, serde_json::Map and the serde_json functions used.   *)
(* An object holds its members as a sequence in the map's iteration order. *)
(***************************************************************************)
JNull == [t |-> "null"]
JBool(b) == [t |-> "bool", b |-> b]
JNumber(n) == [t |-> "number", n |-> n]
JString(s) == [t |-> "string", s |-> s]
JArray(items) == [t |-> "array", items |-> items]
JObject(members) == [t |-> "object", members |-> members]

\* one member of a Map
Member(k, v) == [key |-> k, value |-> v]

\* Value::as_object / Value::as_str as tests
IsObject(v) == v.t = "object"
IsStr(v) == v.t = "string"

\* the keys of a member sequence, in order
KeysOf(members) == [i \in 1..Len(members) |-> members[i].key]

\* Map::insert.  An existing key keeps its place and takes the new value.  A
\* new key goes last when the crate is built with preserve_order (IndexMap)
\* and to its sorted place otherwise (BTreeMap).
MapInsert(m, k, v, preserve_order) ==
    IF \E i \in 1..Len(m) : m[i].key = k
    THEN [i \in 1..Len(m) |-> IF m[i].key = k THEN Member(k, v) ELSE m[i]]
    ELSE IF preserve_order THEN Append(m, Member(k, v))
    ELSE LET n == Cardinality({i \in 1..Len(m) : StrLess(m[i].key, k)})
         IN SubSeq(m, 1, n) \o <<Member(k, v)>> \o SubSeq(m, n + 1, Len(m))

DigitChars == <<"0", "1", "2", "3", "4", "5", "6", "7", "8", "9">>

RECURSIVE Digits(_)
\* the decimal digits of a natural number
Digits(n) == IF n < 10 THEN <<DigitChars[n + 1]>>
             ELSE Digits(n \div 10) \o <<DigitChars[(n % 10) + 1]>>

\* the digits of an integer, with its sign
IntToString(n) == IF n < 0 THEN <<"-">> \o Digits(-n) ELSE Digits(n)

\* serde_json's escape of one character inside a string literal
JsonEscapeChar(c) ==
    CASE c = QUOTE -> <<BACKSLASH, QUOTE>>
      [] c = BACKSLASH -> <<BACKSLASH, BACKSLASH>>
      [] c = LF -> <<BACKSLASH, "n">>
      [] c = CR -> <<BACKSLASH, "r">>
      [] c = "\t" -> <<BACKSLASH, "t">>
      [] OTHER -> <<c>>

\* a string as a JSON string literal
JsonQuote(s) ==
    <<QUOTE>> \o Concat([i \in 1..Len(s) |-> JsonEscapeChar(s[i])]) \o <<QUOTE>>

RECURSIVE JoinWith(_, _)
\* the strings of ss with sep between them
JoinWith(ss, sep) ==
    IF ss = <<>> THEN <<>>
    ELSE IF Len(ss) = 1 THEN ss[1]
    ELSE ss[1] \o sep \o JoinWith(Tail(ss), sep)

RECURSIVE JsonToString(_)
\* serde_json::to_string and Value's Display: the compact form
JsonToString(v) ==
    CASE v.t = "null" -> <<"n", "u", "l", "l">>
      [] v.t = "bool" -> IF v.b THEN <<"t", "r", "u", "e">>
                         ELSE <<"f", "a", "l", "s", "e">>
      [] v.t = "number" -> IntToString(v.n)
      [] v.t = "string" -> JsonQuote(v.s)
      [] v.t = "array" ->
            <<"[">> \o JoinWith([i \in 1..Len(v.items) |-> JsonToString(v.items[i])],
                                <<COMMA>>) \o <<"]">>
      [] v.t = "object" ->
            <<"{">> \o JoinWith([i \in 1..Len(v.members) |->
                                    JsonQuote(v.members[i].key) \o <<":">>
                                    \o JsonToString(v.members[i].value)],
                                <<COMMA>>) \o <<"}">>

\* n levels of the pretty printer's two-space indent
Indent(n) == [i \in 1..(2 * n) |-> SPACE]

RECURSIVE JsonPretty(_, _)
\* serde_json::to_string_pretty at nesting depth d
JsonPretty(v, d) ==
    CASE v.t = "array" /\ v.items # <<>> ->
            <<"[", LF>> \o
            JoinWith([i \in 1..Len(v.items) |->
                         Indent(d + 1) \o JsonPretty(v.items[i], d + 1)],
                     <<COMMA, LF>>) \o
            <<LF>> \o Indent(d) \o <<"]">>
      [] v.t = "object" /\ v.members # <<>> ->
            <<"{", LF>> \o
            JoinWith([i \in 1..Len(v.members) |->
                         Indent(d + 1) \o JsonQuote(v.members[i].key) \o <<":", SPACE>>
                         \o JsonPretty(v.members[i].value, d + 1)],
                     <<COMMA, LF>>) \o
            <<LF>> \o Indent(d) \o <<"}">>
      [] OTHER -> JsonToString(v)

\* serde_json::to_string_pretty
ToStringPretty(v) == JsonPretty(v, 0)

\* serde_json::json!({ key: text }): an object with one string member
JsonSingle(key, text) == JObject(<<Member(key, JString(text))>>)

(***************************************************************************)
(* serde_json::from_str::<Value>: a recursive-descent parser.  A parse     *)
(* step returns [ok, val, next]: the value read and the index after it.    *)
(* Numbers are integers (no text of the model holds a fraction or an       *)
(* exponent); of the escapes, the \u form is not read.                     *)
(***************************************************************************)
ParseFail == [ok |-> FALSE]
ParseOk(v, i) == [ok |-> TRUE, val |-> v, next |-> i]

\* the first index from i on that holds no JSON whitespace
SkipWs(s, i) == i - 1 + FirstNotIn(From(s, i), {SPACE, LF, CR, "\t"})

RECURSIVE ParseChars(_, _, _)
\* the characters of a string literal from index i up to its closing quote
ParseChars(s, i, acc) ==
    IF i > Len(s) THEN ParseFail
    ELSE IF s[i] = QUOTE THEN ParseOk(acc, i + 1)
    ELSE IF s[i] = BACKSLASH
         THEN IF i + 1 > Len(s) THEN ParseFail
              ELSE LET e == s[i + 1]
                   IN CASE e \in {QUOTE, BACKSLASH, "/"} -> ParseChars(s, i + 2, Append(acc, e))
                        [] e = "n" -> ParseChars(s, i + 2, Append(acc, LF))
                        [] e = "r" -> ParseChars(s, i + 2, Append(acc, CR))
                        [] e = "t" -> ParseChars(s, i + 2, Append(acc, "\t"))
                        [] OTHER -> ParseFail
    ELSE IF s[i] \in {LF, CR, "\t"} THEN ParseFail   \* a raw control character
    ELSE ParseChars(s, i + 1, Append(acc, s[i]))

\* the digit a character stands for, -1 for any other character
DigitValue(c) ==
    IF \E d \in 1..10 : DigitChars[d] = c
    THEN (CHOOSE d \in 1..10 : DigitChars[d] = c) - 1
    ELSE -1

RECURSIVE DigitsValue(_)
\* the number a run of digits denotes
DigitsValue(ds) ==
    IF ds = <<>> THEN 0
    ELSE 10 * DigitsValue(SubSeq(ds, 1, Len(ds) - 1)) + DigitValue(ds[Len(ds)])

\* a number at index i: an optional minus and digits without a leading zero
ParseNumber(s, i) ==
    LET neg == s[i] = "-"
        b == IF neg THEN i + 1 ELSE i
        e == b - 1 + FirstNotIn(From(s, b), {DigitChars[d] : d \in 1..10})
        ds == SubSeq(s, b, e - 1)
    IN IF ds = <<>> THEN ParseFail
       ELSE IF Len(ds) > 1 /\ ds[1] = "0" THEN ParseFail
       ELSE ParseOk(JNumber(IF neg THEN -DigitsValue(ds) ELSE DigitsValue(ds)), e)

\* the literal word w at index i
ParseLiteral(s, i, w, v) ==
    IF SubSeq(s, i, i + Len(w) - 1) = w THEN ParseOk(v, i + Len(w)) ELSE ParseFail

RECURSIVE ParseValue(_, _, _)
RECURSIVE ParseElements(_, _, _, _)
RECURSIVE ParseMembers(_, _, _, _)

\* one value, leading whitespace skipped
ParseValue(s, i0, po) ==
    LET i == SkipWs(s, i0)
    IN IF i > Len(s) THEN ParseFail
       ELSE CASE s[i] = QUOTE ->
                    LET r == ParseChars(s, i + 1, <<>>)
                    IN IF r.ok THEN ParseOk(JString(r.val), r.next) ELSE ParseFail
              [] s[i] = "[" ->
                    LET j == SkipWs(s, i + 1)
                    IN IF j <= Len(s) /\ s[j] = "]" THEN ParseOk(JArray(<<>>), j + 1)
                       ELSE ParseElements(s, i + 1, <<>>, po)
              [] s[i] = "{" ->
                    LET j == SkipWs(s, i + 1)
                    IN IF j <= Len(s) /\ s[j] = "}" THEN ParseOk(JObject(<<>>), j + 1)
                       ELSE ParseMembers(s, i + 1, <<>>, po)
              [] s[i] = "t" -> ParseLiteral(s, i, <<"t", "r", "u", "e">>, JBool(TRUE))
              [] s[i] = "f" -> ParseLiteral(s, i, <<"f", "a", "l", "s", "e">>, JBool(FALSE))
              [] s[i] = "n" -> ParseLiteral(s, i, <<"n", "u", "l", "l">>, JNull)
              [] s[i] = "-" \/ DigitValue(s[i]) >= 0 -> ParseNumber(s, i)
              [] OTHER -> ParseFail

\* the elements of an array from index i, after "[" or ","
ParseElements(s, i, acc, po) ==
    LET r == ParseValue(s, i, po)
    IN IF ~r.ok THEN ParseFail
       ELSE LET j == SkipWs(s, r.next)
            IN IF j > Len(s) THEN ParseFail
               ELSE IF s[j] = COMMA THEN ParseElements(s, j + 1, Append(acc, r.val), po)
               ELSE IF s[j] = "]" THEN ParseOk(JArray(Append(acc, r.val)), j + 1)
               ELSE ParseFail

\* the members of an object from index i, after "{" or ","; each is inserted
\* in the map, so a repeated key keeps its last value
ParseMembers(s, i0, acc, po) ==
    LET i == SkipWs(s, i0)
    IN IF i > Len(s) \/ s[i] # QUOTE THEN ParseFail
       ELSE LET k == ParseChars(s, i + 1, <<>>)
            IN IF ~k.ok THEN ParseFail
               ELSE LET c == SkipWs(s, k.next)
                    IN IF c > Len(s) \/ s[c] # ":" THEN ParseFail
                       ELSE LET r == ParseValue(s, c + 1, po)
                            IN IF ~r.ok THEN ParseFail
                               ELSE LET j == SkipWs(s, r.next)
                                        m == MapInsert(acc, k.val, r.val, po)
                                    IN IF j > Len(s) THEN ParseFail
                                       ELSE IF s[j] = COMMA
                                            THEN ParseMembers(s, j + 1, m, po)
                                       ELSE IF s[j] = "}"
                                            THEN ParseOk(JObject(m), j + 1)
                                       ELSE ParseFail

\* serde_json::from_str: one value and nothing but whitespace after it
FromStr(s, po) ==
    LET r == ParseValue(s, 1, po)
    IN IF r.ok /\ SkipWs(s, r.next) > Len(s) THEN Some(r.val) ELSE NONE

(***************************************************************************)
(* detect_secret_format                                                    *)
(***************************************************************************)
FormatJson(v) == [format |-> "Json", json |-> v]
FormatPlainText(text) == [format |-> "PlainText", text |-> text]
\* the blob of a response without a secret string
FormatBinary(bytes) == [format |-> "Binary", bytes |-> bytes]

\* a faulty variant: the parse is not tried, every string is plain text
NeverJson(secret, po) == FormatPlainText(secret)

detect_secret_format(secret, po) ==
    LET parsed == FromStr(secret, po)
    IN IF parsed.some THEN FormatJson(parsed.val) ELSE FormatPlainText(secret)

(***************************************************************************)
(* The csv crate: Writer::write_record with the default settings           *)
(* (delimiter ",", terminator "\n", QuoteStyle::Necessary), and the        *)
(* reader used to state what a written table carries.                      *)
(***************************************************************************)
\* csv-core's needs_quotes: the field holds a delimiter, a quote, CR or LF
NeedsQuotes(field) == \E i \in 1..Len(field) : field[i] \in {COMMA, QUOTE, CR, LF}

\* one field as written: quoted, with each quote doubled, when it needs quotes
CsvField(field) ==
    IF NeedsQuotes(field)
    THEN <<QUOTE>> \o Concat([i \in 1..Len(field) |->
                                 IF field[i] = QUOTE THEN <<QUOTE, QUOTE>>
                                 ELSE <<field[i]>>]) \o <<QUOTE>>
    ELSE field

\* Writer::write_record: the fields, comma-separated, and the terminator; a
\* record that wrote no byte (one empty field) is written as ""
WriteRecord(fields) ==
    LET body == JoinWith([i \in 1..Len(fields) |-> CsvField(fields[i])], <<COMMA>>)
    IN (IF body = <<>> THEN <<QUOTE, QUOTE>> ELSE body) \o <<LF>>

\* the header row both converters write first
CsvHeader == WriteRecord(<<(<<"k", "e", "y">>), (<<"v", "a", "l", "u", "e">>)>>)

\* the literal "key,value\n" of the scalar rows
KeyValueLine == <<"k", "e", "y", COMMA, "v", "a", "l", "u", "e", LF>>

RECURSIVE CsvRead(_, _, _, _, _, _, _)
\* a CSV reader: the records of s from index i.  cur is the field being read,
\* rec the fields of the record so far, mode where the reader is in the field
\* ("start", "unq", "q": inside quotes, "qq": after a quote inside quotes),
\* any whether the record has begun (blank lines are no records)
CsvRead(s, i, cur, rec, recs, mode, any) ==
    IF i > Len(s)
    THEN IF any THEN Append(recs, Append(rec, cur)) ELSE recs
    ELSE LET c == s[i]
         IN CASE mode = "q" /\ c = QUOTE -> CsvRead(s, i + 1, cur, rec, recs, "qq", any)
              [] mode = "q" /\ c # QUOTE ->
                    CsvRead(s, i + 1, Append(cur, c), rec, recs, "q", any)
              [] mode = "qq" /\ c = QUOTE ->
                    CsvRead(s, i + 1, Append(cur, QUOTE), rec, recs, "q", any)
              [] mode # "q" /\ c = COMMA ->
                    CsvRead(s, i + 1, <<>>, Append(rec, cur), recs, "start", TRUE)
              [] mode # "q" /\ c \in {LF, CR} ->
                    IF any
                    THEN CsvRead(s, i + 1, <<>>, <<>>, Append(recs, Append(rec, cur)),
                                 "start", FALSE)
                    ELSE CsvRead(s, i + 1, <<>>, <<>>, recs, "start", FALSE)
              [] mode = "start" /\ c = QUOTE ->
                    CsvRead(s, i + 1, cur, rec, recs, "q", TRUE)
              [] OTHER -> CsvRead(s, i + 1, Append(cur, c), rec, recs, "unq", TRUE)

\* the records a CSV text holds, each a sequence of un-escaped fields
CsvRecords(s) == CsvRead(s, 1, <<>>, <<>>, <<>>, "start", FALSE)

(***************************************************************************)
(* base64::engine::general_purpose::STANDARD                               *)
(***************************************************************************)
B64Chars ==
    <<"A", "B", "C", "D", "E", "F", "G", "H", "I", "J", "K", "L", "M", "N", "O", "P",
      "Q", "R", "S", "T", "U", "V", "W", "X", "Y", "Z", "a", "b", "c", "d", "e", "f",
      "g", "h", "i", "j", "k", "l", "m", "n", "o", "p", "q", "r", "s", "t", "u", "v",
      "w", "x", "y", "z", "0", "1", "2", "3", "4", "5", "6", "7", "8", "9", "+", "/">>

B64Pad == "="

RECURSIVE Base64Encode(_)
\* STANDARD.encode: three bytes to four characters, the tail padded with "="
Base64Encode(bytes) ==
    IF bytes = <<>> THEN <<>>
    ELSE IF Len(bytes) = 1
         THEN <<B64Chars[(bytes[1] \div 4) + 1],
                B64Chars[((bytes[1] % 4) * 16) + 1], B64Pad, B64Pad>>
    ELSE IF Len(bytes) = 2
         THEN <<B64Chars[(bytes[1] \div 4) + 1],
                B64Chars[((bytes[1] % 4) * 16 + bytes[2] \div 16) + 1],
                B64Chars[((bytes[2] % 16) * 4) + 1], B64Pad>>
    ELSE <<B64Chars[(bytes[1] \div 4) + 1],
           B64Chars[((bytes[1] % 4) * 16 + bytes[2] \div 16) + 1],
           B64Chars[((bytes[2] % 16) * 4 + bytes[3] \div 64) + 1],
           B64Chars[(bytes[3] % 64) + 1]>> \o Base64Encode(SubSeq(bytes, 4, Len(bytes)))

\* the six bits a base64 character stands for
B64Value(c) == (CHOOSE i \in 1..64 : B64Chars[i] = c) - 1

RECURSIVE Base64Decode(_)
\* STANDARD.decode of a well-formed encoding
Base64Decode(cs) ==
    IF cs = <<>> THEN <<>>
    ELSE LET a == B64Value(cs[1])
             b == B64Value(cs[2])
         IN IF cs[3] = B64Pad THEN <<a * 4 + b \div 16>>
            ELSE LET c == B64Value(cs[3])
                 IN IF cs[4] = B64Pad
                    THEN <<a * 4 + b \div 16, (b % 16) * 16 + c \div 4>>
                    ELSE <<a * 4 + b \div 16, (b % 16) * 16 + c \div 4,
                           (c % 4) * 64 + B64Value(cs[4])>>
                         \o Base64Decode(SubSeq(cs, 5, Len(cs)))

(***************************************************************************)
(* What one process_* call does: at most one fs::write, and the lines it   *)
(* prints when nothing fails.  Every branch of the three functions writes  *)
(* first and prints after, or prints without writing.                      *)
(***************************************************************************)
TextContent(chars) == [text |-> chars]
BytesContent(bytes) == [bytes |-> bytes]
\* serde_yaml::to_string(v)
YamlContent(v) == [yaml |-> v]

Msg(m) == [msg |-> m]
MsgAt(m, path) == [msg |-> m, at |-> path]
MsgLen(m, n) == [msg |-> m, len |-> n]
MsgLenAt(m, n, path) == [msg |-> m, len |-> n, at |-> path]
PrintLine(chars) == [line |-> chars]

\* fs::write(path, content) and then println!(out...)
WriteThenPrint(path, content, out) ==
    [write |-> Some([path |-> path, content |-> content]), out |-> out]
\* println!(out...) alone
PrintOnly(out) == [write |-> NONE, out |-> out]

OutputFormats == {"Stdout", "Json", "Env", "Yaml", "Csv"}

NotAnObjectMsg == Msg("The secret is not a valid JSON object.")

\* value.as_str().map(|s| s.to_string()).unwrap_or_else(|| value.to_string())
ValueStr(value) == IF IsStr(value) THEN value.s ELSE JsonToString(value)

\* a faulty variant of the line: the "\n" forgotten
EnvLineUnterminated(key, value_str) == key \o <<EQ>> \o TrimMatches(value_str, QUOTE)

\* format!("{}={}\n", key, value_str.trim_matches('"'))
EnvLine(key, value_str) == key \o <<EQ>> \o TrimMatches(value_str, QUOTE) \o <<LF>>

\* the loop that pushes one line per member of the object
EnvContent(members) ==
    Concat([i \in 1..Len(members) |->
               EnvLine(members[i].key, ValueStr(members[i].value))])

\* escape_csv_field: the field written as a record of its own, terminator included
escape_csv_field(field) == WriteRecord(<<field>>)

\* a faulty variant: the rows formatted by hand, no field escaped
JsonCsvUnescaped(json) ==
    IF IsObject(json)
    THEN CsvHeader \o
         Concat([i \in 1..Len(json.members) |->
                    json.members[i].key \o <<COMMA>>
                    \o TrimMatches(ValueStr(json.members[i].value), QUOTE) \o <<LF>>])
    ELSE KeyValueLine \o <<"v", "a", "l", "u", "e", COMMA>> \o JsonToString(json) \o <<LF>>

\* convert_json_to_csv
convert_json_to_csv(json) ==
    IF IsObject(json)
    THEN CsvHeader \o
         Concat([i \in 1..Len(json.members) |->
                    WriteRecord(<<json.members[i].key,
                                  TrimMatches(ValueStr(json.members[i].value), QUOTE)>>)])
    ELSE KeyValueLine \o <<"v", "a", "l", "u", "e", COMMA>>
         \o escape_csv_field(JsonToString(json))

\* process_json_secret, the branch taken when --file is given
JsonToFile(json, fmt, file_path) ==
    CASE fmt = "Stdout" ->
            IF IsObject(json)
            THEN WriteThenPrint(file_path, TextContent(EnvContent(json.members)),
                                <<MsgAt("Secret written to file: ", file_path)>>)
            ELSE WriteThenPrint(file_path, TextContent(JsonToString(json)),
                                <<MsgAt("Secret written to file: ", file_path)>>)
      [] fmt = "Json" ->
            WriteThenPrint(file_path, TextContent(ToStringPretty(json)),
                           <<MsgAt("JSON file created successfully at ", file_path)>>)
      [] fmt = "Env" ->
            IF IsObject(json)
            THEN WriteThenPrint(file_path, TextContent(EnvContent(json.members)),
                                <<MsgAt(".env file created successfully at ", file_path)>>)
            ELSE PrintOnly(<<NotAnObjectMsg>>)
      [] fmt = "Yaml" ->
            WriteThenPrint(file_path, YamlContent(json),
                           <<MsgAt("YAML file created successfully at ", file_path)>>)
      [] fmt = "Csv" ->
            WriteThenPrint(file_path, TextContent(convert_json_to_csv(json)),
                           <<MsgAt("CSV file created successfully at ", file_path)>>)

\* process_json_secret, the branch taken without --file
JsonDefault(json, fmt) ==
    CASE fmt = "Stdout" ->
            IF IsObject(json)
            THEN PrintOnly([i \in 1..Len(json.members) |->
                               PrintLine(json.members[i].key \o <<EQ>> \o
                                         TrimMatches(ValueStr(json.members[i].value),
                                                     QUOTE))])
            ELSE PrintOnly(<<NotAnObjectMsg>>)
      [] fmt = "Json" ->
            WriteThenPrint("secret.json", TextContent(ToStringPretty(json)),
                           <<Msg("JSON file created successfully!")>>)
      [] fmt = "Env" ->
            IF IsObject(json)
            THEN WriteThenPrint(".env", TextContent(EnvContent(json.members)),
                                <<Msg(".env file created successfully!")>>)
            ELSE PrintOnly(<<NotAnObjectMsg>>)
      [] fmt = "Yaml" ->
            WriteThenPrint("secret.yaml", YamlContent(json),
                           <<Msg("YAML file created successfully!")>>)
      [] fmt = "Csv" ->
            WriteThenPrint("secret.csv", TextContent(convert_json_to_csv(json)),
                           <<Msg("CSV file created successfully!")>>)

\* a faulty variant: --file ignored
JsonIgnoringFile(json, fmt, f) == JsonDefault(json, fmt)

\* a faulty variant: for Env the write is made whether or not the value is an
\* object
JsonEnvWritesAnyway(json, fmt, f) ==
    IF fmt = "Env" /\ ~IsObject(json)
    THEN WriteThenPrint(IF f.some THEN f.val ELSE ".env", TextContent(<<>>),
                        <<Msg(".env file created successfully!")>>)
    ELSE IF f.some THEN JsonToFile(json, fmt, f.val) ELSE JsonDefault(json, fmt)

\* a faulty variant: for Json and Yaml a value that is no object is wrapped
\* as {"value": <its text>} before it is serialised
JsonScalarWrapped(json, fmt, f) ==
    LET j == IF ~IsObject(json) /\ fmt \in {"Json", "Yaml"}
             THEN JsonSingle(<<"v", "a", "l", "u", "e">>, JsonToString(json))
             ELSE json
    IN IF f.some THEN JsonToFile(j, fmt, f.val) ELSE JsonDefault(j, fmt)

process_json_secret(json, fmt, f) ==
    IF f.some THEN JsonToFile(json, fmt, f.val) ELSE JsonDefault(json, fmt)

(***************************************************************************)
(* Plain-text secrets                                                      *)
(***************************************************************************)
\* a faulty variant of the line: the value keeps its quotes
EnvTextLineAsIs(line) == line \o <<LF>>

\* process_env_text, one line: the value of a key=value line loses its quotes
EnvTextLine(line) ==
    LET pos == Find(line, EQ)
    IN IF pos > 0
       THEN SubSeq(line, 1, pos - 1) \o <<EQ>>
            \o TrimMatches(From(line, pos + 1), QUOTE) \o <<LF>>
       ELSE line \o <<LF>>

\* process_env_text
process_env_text(text) ==
    LET lines == Lines(text)
        res == Concat([i \in 1..Len(lines) |-> EnvTextLine(lines[i])])
    IN IF EndsWith(res, LF) /\ ~EndsWith(text, LF)
       THEN SubSeq(res, 1, Len(res) - 1)
       ELSE res

\* a faulty variant: the newline appended without looking at the text's end
AppendNewline(processed_text) == processed_text \o <<LF>>

\* "Ensure there's a trailing newline"
WithTrailingNewline(processed_text) ==
    IF EndsWith(processed_text, LF) THEN processed_text ELSE processed_text \o <<LF>>

\* a faulty variant: the text without "=" treated like key=value text, no
\* default key put before it
PlainEnvContentNoKey(text) == WithTrailingNewline(process_env_text(text))

\* the .env text of a plain-text secret: both Env branches compute it alike
PlainEnvContent(text) ==
    IF Contains(text, EQ)
    THEN WithTrailingNewline(process_env_text(text))
    ELSE <<"S", "E", "C", "R", "E", "T", "_", "V", "A", "L", "U", "E", EQ>>
         \o text \o <<LF>>

RECURSIVE ParseEnvLines(_, _, _)
\* parse_env_vars, the loop: blank and # lines skipped, the line split at its
\* first "=", key and value trimmed, an empty key dropped
ParseEnvLines(lines, env_vars, po) ==
    IF lines = <<>> THEN env_vars
    ELSE LET trimmed == Trim(Head(lines))
             pos == Find(trimmed, EQ)
             key == Trim(SubSeq(trimmed, 1, pos - 1))
             value == Trim(From(trimmed, pos + 1))
         IN IF trimmed = <<>> \/ StartsWith(trimmed, HASH)
            THEN ParseEnvLines(Tail(lines), env_vars, po)
            ELSE IF pos > 0 /\ key # <<>>
                 THEN ParseEnvLines(Tail(lines),
                                    MapInsert(env_vars, key, JString(value), po), po)
            ELSE ParseEnvLines(Tail(lines), env_vars, po)

\* parse_env_vars
parse_env_vars(text, po) == ParseEnvLines(Lines(text), <<>>, po)

\* convert_env_to_json
convert_env_to_json(text, po) == ToStringPretty(JObject(parse_env_vars(text, po)))

\* convert_env_to_csv, one line: the record it writes, or nothing
EnvCsvLine(line) ==
    LET trimmed == Trim(line)
        pos == Find(trimmed, EQ)
        key == Trim(SubSeq(trimmed, 1, pos - 1))
        value == Trim(From(trimmed, pos + 1))
    IN IF trimmed = <<>> \/ StartsWith(trimmed, HASH) THEN <<>>
       ELSE IF pos > 0 /\ key # <<>>
            THEN WriteRecord(<<key, TrimMatches(value, QUOTE)>>)
       ELSE <<>>

\* convert_env_to_csv
convert_env_to_csv(text) ==
    LET lines == Lines(text)
    IN CsvHeader \o Concat([i \in 1..Len(lines) |-> EnvCsvLine(lines[i])])

\* text.contains('=') && text.contains('\n')
IsEnvFormat(text) == Contains(text, EQ) /\ Contains(text, LF)

\* format!("key,value\nvalue,{}", escape_csv_field(&text))
ScalarCsv(key, text) == KeyValueLine \o key \o <<COMMA>> \o escape_csv_field(text)

ValueKey == <<"v", "a", "l", "u", "e">>

\* process_plain_text_secret, the branch taken when --file is given
PlainToFile(text, fmt, file_path, po) ==
    CASE fmt = "Stdout" ->
            WriteThenPrint(file_path, TextContent(text),
                           <<MsgAt("Secret written to file: ", file_path)>>)
      [] fmt = "Json" ->
            IF IsEnvFormat(text)
            THEN WriteThenPrint(file_path, TextContent(convert_env_to_json(text, po)),
                                <<MsgAt("JSON file created successfully at ", file_path)>>)
            ELSE WriteThenPrint(file_path,
                                TextContent(ToStringPretty(JsonSingle(ValueKey, text))),
                                <<MsgAt("JSON file created successfully at ", file_path)>>)
      [] fmt = "Env" ->
            WriteThenPrint(file_path, TextContent(PlainEnvContent(text)),
                           <<MsgAt(".env file created successfully at ", file_path)>>)
      [] fmt = "Yaml" ->
            IF IsEnvFormat(text)
            THEN WriteThenPrint(file_path, YamlContent(JObject(parse_env_vars(text, po))),
                                <<MsgAt("YAML file created successfully at ", file_path)>>)
            ELSE WriteThenPrint(file_path, YamlContent(JsonSingle(ValueKey, text)),
                                <<MsgAt("YAML file created successfully at ", file_path)>>)
      [] fmt = "Csv" ->
            IF IsEnvFormat(text)
            THEN WriteThenPrint(file_path, TextContent(convert_env_to_csv(text)),
                                <<MsgAt("CSV file created successfully at ", file_path)>>)
            ELSE WriteThenPrint(file_path, TextContent(ScalarCsv(ValueKey, text)),
                                <<MsgAt("CSV file created successfully at ", file_path)>>)

\* process_plain_text_secret, the branch taken without --file
PlainDefault(text, fmt, po) ==
    CASE fmt = "Stdout" -> PrintOnly(<<PrintLine(text)>>)
      [] fmt = "Json" ->
            IF IsEnvFormat(text)
            THEN WriteThenPrint("secret.json", TextContent(convert_env_to_json(text, po)),
                                <<Msg("JSON file created successfully!")>>)
            ELSE WriteThenPrint("secret.json",
                                TextContent(ToStringPretty(JsonSingle(ValueKey, text))),
                                <<Msg("JSON file created successfully!")>>)
      [] fmt = "Env" ->
            WriteThenPrint(".env", TextContent(PlainEnvContent(text)),
                           <<Msg(".env file created successfully!")>>)
      [] fmt = "Yaml" ->
            IF IsEnvFormat(text)
            THEN WriteThenPrint("secret.yaml", YamlContent(JObject(parse_env_vars(text, po))),
                                <<Msg("YAML file created successfully!")>>)
            ELSE WriteThenPrint("secret.yaml", YamlContent(JsonSingle(ValueKey, text)),
                                <<Msg("YAML file created successfully!")>>)
      [] fmt = "Csv" ->
            IF IsEnvFormat(text)
            THEN WriteThenPrint("secret.csv", TextContent(convert_env_to_csv(text)),
                                <<Msg("CSV file created successfully!")>>)
            ELSE WriteThenPrint("secret.csv", TextContent(ScalarCsv(ValueKey, text)),
                                <<Msg("CSV file created successfully!")>>)

process_plain_text_secret(text, fmt, f, po) ==
    IF f.some THEN PlainToFile(text, fmt, f.val, po) ELSE PlainDefault(text, fmt, po)

(***************************************************************************)
(* Binary secrets                                                          *)
(***************************************************************************)
BinaryDataKey == <<"b", "i", "n", "a", "r", "y", "_", "d", "a", "t", "a">>

\* format!("BINARY_SECRET={}\n", base64_str)
BinaryEnvContent(base64_str) ==
    <<"B", "I", "N", "A", "R", "Y", "_", "S", "E", "C", "R", "E", "T", EQ>>
    \o base64_str \o <<LF>>

\* a faulty variant: the bytes written as they are, whatever the format
BinaryToFileRaw(binary_data, fmt, file_path) ==
    WriteThenPrint(file_path, BytesContent(binary_data),
                   <<MsgLenAt("Binary secret written to file", Len(binary_data), file_path)>>)

\* process_binary_secret, the branch taken when --file is given
BinaryToFile(binary_data, fmt, file_path) ==
    LET base64_str == Base64Encode(binary_data)
    IN CASE fmt = "Stdout" ->
               WriteThenPrint(file_path, BytesContent(binary_data),
                              <<MsgLenAt("Binary secret written to file", Len(binary_data),
                                         file_path)>>)
         [] fmt = "Json" ->
               WriteThenPrint(file_path,
                              TextContent(ToStringPretty(JsonSingle(BinaryDataKey, base64_str))),
                              <<MsgAt("JSON file with base64-encoded binary data created successfully at ",
                                      file_path)>>)
         [] fmt = "Env" ->
               WriteThenPrint(file_path, TextContent(BinaryEnvContent(base64_str)),
                              <<MsgAt(".env file with base64-encoded binary data created successfully at ",
                                      file_path)>>)
         [] fmt = "Yaml" ->
               WriteThenPrint(file_path, YamlContent(JsonSingle(BinaryDataKey, base64_str)),
                              <<MsgAt("YAML file with base64-encoded binary data created successfully at ",
                                      file_path)>>)
         [] fmt = "Csv" ->
               WriteThenPrint(file_path, TextContent(ScalarCsv(BinaryDataKey, base64_str)),
                              <<MsgAt("CSV file with base64-encoded binary data created successfully at ",
                                      file_path)>>)

\* a faulty variant of the branch without --file: the bytes written unencoded
BinaryDefaultRaw(binary_data, fmt) ==
    IF fmt = "Stdout"
    THEN PrintOnly(<<MsgLen("Binary secret data", Len(binary_data))>>)
    ELSE WriteThenPrint(CASE fmt = "Json" -> "secret.json"
                          [] fmt = "Env" -> ".env"
                          [] fmt = "Yaml" -> "secret.yaml"
                          [] fmt = "Csv" -> "secret.csv",
                        BytesContent(binary_data),
                        <<Msg("file with binary data created successfully!")>>)

\* process_binary_secret, the branch taken without --file
BinaryDefault(binary_data, fmt) ==
    LET base64_str == Base64Encode(binary_data)
    IN CASE fmt = "Stdout" ->
               PrintOnly(<<MsgLen("Binary secret data", Len(binary_data))>>)
         [] fmt = "Json" ->
               WriteThenPrint("secret.json",
                              TextContent(ToStringPretty(JsonSingle(BinaryDataKey, base64_str))),
                              <<Msg("JSON file with base64-encoded binary data created successfully!")>>)
         [] fmt = "Env" ->
               WriteThenPrint(".env", TextContent(BinaryEnvContent(base64_str)),
                              <<Msg(".env file with base64-encoded binary data created successfully!")>>)
         [] fmt = "Yaml" ->
               WriteThenPrint("secret.yaml", YamlContent(JsonSingle(BinaryDataKey, base64_str)),
                              <<Msg("YAML file with base64-encoded binary data created successfully!")>>)
         [] fmt = "Csv" ->
               WriteThenPrint("secret.csv", TextContent(ScalarCsv(BinaryDataKey, base64_str)),
                              <<Msg("CSV file with base64-encoded binary data created successfully!")>>)

process_binary_secret(binary, fmt, f) ==
    IF f.some THEN BinaryToFile(binary, fmt, f.val) ELSE BinaryDefault(binary, fmt)

(***************************************************************************)
(* The secrets the service can hold.                                       *)
(***************************************************************************)
\* the characters of a free-form secret string
Alphabet == {"a", "1", EQ, LF, SPACE, QUOTE, COMMA}

\* every string of at most MaxTextLen characters
FreeTexts == UNION {[1..n -> Alphabet] : n \in 0..MaxTextLen}

\* lines of key=value text, plain and awkward
EnvLines ==
    { <<"a", EQ, "1">>,
      <<"b", EQ, "1">>,
      <<"a", EQ, QUOTE, "1", QUOTE>>,
      <<"a", EQ, QUOTE, "1">>,
      <<"b", EQ, QUOTE, QUOTE, "1", QUOTE, QUOTE>>,
      <<SPACE, "a", SPACE, EQ, SPACE, "1", SPACE>>,
      <<HASH, "a", EQ, "1">>,
      <<"b", EQ, "1", COMMA, "1">>,
      <<"b", EQ, "1", EQ, "1">>,
      <<"a", EQ, "1", CR>> }

\* texts of at most MaxLines such lines, "\n" between them, with and without
\* a final "\n"
EnvTexts ==
    UNION {{JoinWith(ls, <<LF>>) \o end : ls \in [1..n -> EnvLines], end \in {<<>>, <<LF>>}}
              : n \in 1..MaxLines}

JsonKeys == {<<"a">>, <<"b">>, <<HASH>>}

\* member values: strings plain, quoted once, twice and on one side, with a
\* comma and a quote inside, with a newline; a number
JsonMemberValues ==
    { JString(<<"v">>),
      JString(<<QUOTE, "v", QUOTE>>),
      JString(<<QUOTE, QUOTE, "v", QUOTE, QUOTE>>),
      JString(<<QUOTE, "v">>),
      JString(<<"v", COMMA, QUOTE, "v">>),
      JString(<<"v", LF, "v">>),
      JNumber(1) }

\* objects of at most MaxMembers members with distinct keys, in every order
JsonObjects ==
    UNION {{JObject(ms) : ms \in
               {m \in [1..n -> [key : JsonKeys, value : JsonMemberValues]] :
                   \A i, j \in 1..n : i # j => m[i].key # m[j].key}}
           : n \in 0..MaxMembers}

\* documents that are no object
JsonScalars ==
    { JArray(<<JNumber(1), JString(<<"v">>)>>), JBool(TRUE), JNull,
      JString(<<"v", COMMA, "v">>) }

\* the secret strings that are JSON documents, as the service stores them
JsonTexts == {JsonToString(v) : v \in JsonObjects \cup JsonScalars}

SecretStrings == FreeTexts \cup EnvTexts \cup JsonTexts

ByteValues == {0, 1, 77, 128, 255}

\* every blob of at most MaxBytes bytes
Blobs == UNION {[1..n -> ByteValues] : n \in 0..MaxBytes}

\* GetSecretValueOutput: a string, a blob, both (a few) or neither
Responses ==
    {[secret_string |-> Some(s), secret_binary |-> NONE] : s \in SecretStrings}
    \cup {[secret_string |-> NONE, secret_binary |-> Some(b)] : b \in Blobs}
    \cup {[secret_string |-> Some(s), secret_binary |-> Some(<<77>>)] :
             s \in {<<"a">>, <<"1">>}}
    \cup {[secret_string |-> NONE, secret_binary |-> NONE]}

\* the paths of the model: the four default names and one --file path
UserPath == "out.txt"
DefaultPaths == {".env", "secret.json", "secret.yaml", "secret.csv"}
Paths == DefaultPaths \cup {UserPath}
FileArgs == {NONE, Some(UserPath)}

\* what a file held before the command ran
OldContent == TextContent(<<"o", "l", "d">>)

(***************************************************************************)
(* The secret lists the service can return.                                *)
(***************************************************************************)
\* SecretListEntry.name: Option<String>
ListEntries == {Some(<<"a">>), Some(<<"a", "b">>), Some(<<"B">>), NONE}

\* secret_list of one response: nothing, or at most n entries
SecretLists(n) == {NONE} \cup {Some(es) : es \in UNION {[1..k -> ListEntries] : k \in 0..n}}

\* how many entries a secret_list holds
ListLen(sl) == IF sl.some THEN Len(sl.val) ELSE 0

RECURSIVE PageLists(_, _)
\* the secret_lists of p successive pages that hold n entries at most, each
\* page MaxPageLen at most
PageLists(p, n) ==
    IF p = 0 THEN {<<>>}
    ELSE UNION {{<<sl>> \o rest : rest \in PageLists(p - 1, n - ListLen(sl))}
                : sl \in SecretLists(IF n < MaxPageLen THEN n ELSE MaxPageLen)}

\* the pages as the service returns them: every page but the last carries
\* the token of the next
PagesOf(lists) ==
    [i \in 1..Len(lists) |->
        [secret_list |-> lists[i],
         next_token |-> IF i < Len(lists) THEN Some(i + 1) ELSE NONE]]

\* a page the service holds that no token leads to
StrayPage == [secret_list |-> Some(<<Some(<<"a">>)>>), next_token |-> NONE]

\* the chains of pages, alone or with a page after the last one
Stores ==
    LET chains(p) == {PagesOf(ls) : ls \in PageLists(p, MaxPageLen + 1)}
    IN UNION ({chains(p) : p \in 1..MaxPages}
              \cup {{c \o <<StrayPage>> : c \in chains(p)} : p \in 1..MaxPages})

Filters == {NONE, Some(<<"a">>), Some(<<"b">>), Some(<<"B">>)}

(***************************************************************************)
(* get_secret                                                              *)
(***************************************************************************)
\* the state before a command runs
InitCommon ==
    /\ output_format = "unset"
    /\ file = NONE
    /\ pc = "start"
    /\ fs = [p \in Paths |-> IF p \in {UserPath, ".env"} THEN Some(OldContent) ELSE NONE]
    /\ writes = <<>>
    /\ stdout = <<>>
    /\ pending = <<>>
    /\ result = "none"
    /\ payload = [format |-> "unset"]
    /\ next_token = NONE
    /\ secrets = <<>>
    /\ requests = <<>>

Init ==
    /\ InitCommon
    /\ response \in Responses
    /\ store = <<>>
    /\ filter = NONE

\* a faulty variant: the Result of the write is dropped, the call goes on
ProceedsAnyway(ok) == TRUE

\* the ? after fs::write: the call goes on when the write succeeded and
\* returns the error otherwise
Proceeds(ok) == ok

\* a process_* call up to its write or, without a write, to its end: the
\* write succeeds or fails; after a write the lines are still to be printed
Run(effect, fmt, f, classified) ==
    /\ pc = "start"
    /\ output_format' = fmt
    /\ file' = f
    /\ payload' = classified
    /\ IF effect.write.some
       THEN \E ok \in BOOLEAN :
               /\ writes' = Append(writes, [path |-> effect.write.val.path,
                                            content |-> effect.write.val.content,
                                            ok |-> ok])
               /\ fs' = IF ok THEN [fs EXCEPT ![effect.write.val.path] =
                                                 Some(effect.write.val.content)]
                        ELSE fs
               /\ stdout' = stdout
               /\ IF Proceeds(ok)
                  THEN pc' = "written" /\ pending' = effect.out /\ result' = "none"
                  ELSE pc' = "done" /\ pending' = <<>> /\ result' = "Err"
       ELSE /\ writes' = writes
            /\ fs' = fs
            /\ stdout' = stdout \o effect.out
            /\ pending' = <<>>
            /\ result' = "Ok"
            /\ pc' = "done"
    /\ UNCHANGED <<response, store, filter, next_token, secrets, requests>>

\* the rest of a process_* call after its write: the println! and Ok(())
Report ==
    /\ pc = "written"
    /\ stdout' = stdout \o pending
    /\ pending' = <<>>
    /\ result' = "Ok"
    /\ pc' = "done"
    /\ UNCHANGED <<response, output_format, file, fs, writes, payload, store, filter,
                   next_token, secrets, requests>>

\* get_secret, the secret string parses as JSON: process_json_secret
GetJson ==
    \E po \in BOOLEAN :
        /\ pc = "start"
        /\ response.secret_string.some
        /\ LET d == detect_secret_format(response.secret_string.val, po)
           IN /\ d.format = "Json"
              /\ \E fmt \in OutputFormats, f \in FileArgs :
                    Run(process_json_secret(d.json, fmt, f), fmt, f, d)

\* get_secret, the secret string does not parse: process_plain_text_secret
GetPlainText ==
    \E po \in BOOLEAN :
        /\ pc = "start"
        /\ response.secret_string.some
        /\ LET d == detect_secret_format(response.secret_string.val, po)
           IN /\ d.format = "PlainText"
              /\ \E fmt \in OutputFormats, f \in FileArgs :
                    Run(process_plain_text_secret(d.text, fmt, f, po), fmt, f, d)

\* get_secret, no secret string but a blob: process_binary_secret
GetBinary ==
    \E fmt \in OutputFormats, f \in FileArgs :
        /\ pc = "start"
        /\ ~response.secret_string.some
        /\ response.secret_binary.some
        /\ Run(process_binary_secret(response.secret_binary.val, fmt, f), fmt, f,
               FormatBinary(response.secret_binary.val))

\* get_secret, neither: a line is printed and nothing is written
GetNothing ==
    \E fmt \in OutputFormats, f \in FileArgs :
        /\ pc = "start"
        /\ ~response.secret_string.some
        /\ ~response.secret_binary.some
        /\ Run(PrintOnly(<<Msg("No secret content found in the response.")>>),
               fmt, f, [format |-> "Empty"])

\* get_secret, the request fails: send().await? returns the error before the
\* output format or the file is looked at
GetFails ==
    /\ pc = "start"
    /\ pc' = "done"
    /\ result' = "Err"
    /\ UNCHANGED <<response, output_format, file, fs, writes, stdout, pending, payload,
                   store, filter, next_token, secrets, requests>>

Next == GetJson \/ GetPlainText \/ GetBinary \/ GetNothing \/ GetFails \/ Report

Spec == Init /\ [][Next]_vars

(***************************************************************************)
(* list_secrets                                                            *)
(***************************************************************************)
InitList ==
    /\ InitCommon
    /\ response = [secret_string |-> NONE, secret_binary |-> NONE]
    /\ store \in Stores
    /\ filter \in Filters

RECURSIVE Insert(_, _)
\* name put before the first element of the sorted sequence that is greater
Insert(sorted, name) ==
    IF sorted = <<>> THEN <<name>>
    ELSE IF StrLess(name, Head(sorted)) THEN <<name>> \o sorted
    ELSE <<Head(sorted)>> \o Insert(Tail(sorted), name)

RECURSIVE Sort(_)
\* Vec<String>::sort: the same names in ascending order
Sort(names) ==
    IF names = <<>> THEN <<>>
    ELSE Insert(Sort(SubSeq(names, 1, Len(names) - 1)), names[Len(names)])

RECURSIVE PushAllNames(_, _, _)
\* a faulty variant of the inner loop: the filter not looked at
PushAllNames(acc, entries, flt) ==
    IF entries = <<>> THEN acc
    ELSE IF Head(entries).some
         THEN PushAllNames(Append(acc, Head(entries).val), Tail(entries), flt)
         ELSE PushAllNames(acc, Tail(entries), flt)

RECURSIVE PushNames(_, _, _)
\* the inner loop over one secret_list: a secret with a name is pushed when no
\* filter is given or its name contains the filter
PushNames(acc, entries, flt) ==
    IF entries = <<>> THEN acc
    ELSE LET secret == Head(entries)
         IN IF secret.some /\ (~flt.some \/ ContainsStr(secret.val, flt.val))
            THEN PushNames(Append(acc, secret.val), Tail(entries), flt)
            ELSE PushNames(acc, Tail(entries), flt)

\* what list_secrets prints once the loop has ended
Display(names) ==
    IF names = <<>> THEN <<Msg("No secrets found.")>>
    ELSE <<Msg("Available secrets:")>>
         \o [i \in 1..Len(names) |-> PrintLine(<<"-", SPACE>> \o names[i])]
         \o <<MsgLen("Total secrets", Len(names))>>

\* a faulty variant: the loop left after the first response
NoMorePages(token) == FALSE

\* !next_token.is_none(): the loop goes round again
MorePages(token) == token.some

\* the page the service returns for a request: the first without a token
PageFor(token) == store[IF token.some THEN token.val ELSE 1]

\* one turn of the loop: the request is sent with the token held, the page's
\* names are pushed, its token is kept; without a token the loop ends and the
\* sorted names are printed
ListPage ==
    /\ pc \in {"start", "paging"}
    /\ LET page == PageFor(next_token)
           got == IF page.secret_list.some
                  THEN PushNames(secrets, page.secret_list.val, filter)
                  ELSE secrets
       IN /\ requests' = Append(requests, next_token)
          /\ next_token' = page.next_token
          /\ IF MorePages(page.next_token)
             THEN /\ secrets' = got
                  /\ pc' = "paging"
                  /\ UNCHANGED <<stdout, result>>
             ELSE /\ secrets' = Sort(got)
                  /\ stdout' = stdout \o Display(Sort(got))
                  /\ result' = "Ok"
                  /\ pc' = "done"
    /\ UNCHANGED <<response, output_format, file, fs, writes, pending, payload, store,
                   filter>>

\* one turn of the loop whose request fails: request.send().await? returns
ListFails ==
    /\ pc \in {"start", "paging"}
    /\ requests' = Append(requests, next_token)
    /\ result' = "Err"
    /\ pc' = "done"
    /\ UNCHANGED <<response, output_format, file, fs, writes, stdout, pending, payload,
                   store, filter, next_token, secrets>>

NextList == ListPage \/ ListFails

SpecList == InitList /\ [][NextList]_vars

(***************************************************************************)
(* Properties.  The command has ended in a state with pc = "done"; a       *)
(* process_* call has then attempted at most one write, writes[1].         *)
(***************************************************************************)
\* the process_* call for this payload kind and output format has run
Processed(kind, fmt) ==
    pc = "done" /\ payload.format = kind /\ output_format = fmt

\* the same, and the command returned Ok (its write, if any, succeeded)
ProcessedOk(kind, fmt) == Processed(kind, fmt) /\ result = "Ok"

\* the call attempted exactly one write, of this text
WroteText(chars) == Len(writes) = 1 /\ writes[1].content = TextContent(chars)

\* s without one pair of surrounding double quotes, if it has one
StripOneLayer(s) ==
    IF Len(s) >= 2 /\ s[1] = QUOTE /\ s[Len(s)] = QUOTE
    THEN SubSeq(s, 2, Len(s) - 1)
    ELSE s

\* an object all of whose member values are strings
AllStrings(v) == IsObject(v) /\ \A i \in 1..Len(v.members) : IsStr(v.members[i].value)

\* C1: a JSON object with string values only, rendered to Env, is written as
\* one line KEY=value\n per member, in member order, each value with exactly
\* one layer of surrounding double quotes removed (two layers keep one, a
\* quote on one end only stays).
C1_JsonEnvOneLayer ==
    (ProcessedOk("Json", "Env") /\ AllStrings(payload.json)) =>
        WroteText(Concat([i \in 1..Len(payload.json.members) |->
                             payload.json.members[i].key \o <<EQ>>
                             \o StripOneLayer(payload.json.members[i].value.s)
                             \o <<LF>>]))

\* C5: a plain-text payload without "=" is written as SECRET_VALUE=<text>\n
\* for Env, as the JSON object {"value": text} for Json, and as the header
\* key,value and the one row value,<escaped text> for Csv.
C5_ScalarPlainText ==
    (pc = "done" /\ payload.format = "PlainText" /\ ~Contains(payload.text, EQ)) =>
        /\ output_format = "Env" =>
              WroteText(<<"S", "E", "C", "R", "E", "T", "_", "V", "A", "L", "U", "E", EQ>>
                        \o payload.text \o <<LF>>)
        /\ output_format = "Json" =>
              /\ Len(writes) = 1
              /\ \A po \in BOOLEAN :
                    FromStr(writes[1].content.text, po)
                        = Some(JObject(<<Member(<<"v", "a", "l", "u", "e">>,
                                                JString(payload.text))>>))
        /\ output_format = "Csv" =>
              /\ Len(writes) = 1
              /\ SubSeq(writes[1].content.text, 1, 16)
                    = <<"k", "e", "y", COMMA, "v", "a", "l", "u", "e", LF,
                        "v", "a", "l", "u", "e", COMMA>>
              /\ CsvRecords(writes[1].content.text)
                    = << <<(<<"k", "e", "y">>), (<<"v", "a", "l", "u", "e">>)>>,
                         <<(<<"v", "a", "l", "u", "e">>), payload.text>> >>

\* C5 happens: a text with a newline and without "=" has been written as CSV
C5_Witness ==
    /\ Processed("PlainText", "Csv")
    /\ ~Contains(payload.text, EQ)
    /\ Contains(payload.text, LF)
    /\ Len(payload.text) > 1
    /\ Len(writes) = 1 /\ writes[1].ok

\* the base64 string a written binary secret carries, by output format
Carried(fmt, content) ==
    CASE fmt = "Env" -> SubSeq(content.text, 15, Len(content.text) - 1)
      [] fmt = "Json" -> FromStr(content.text, TRUE).val.members[1].value.s
      [] fmt = "Yaml" -> content.yaml.members[1].value.s
      [] fmt = "Csv" -> CsvRecords(content.text)[2][2]

\* C6: a binary payload rendered to Env is written as BINARY_SECRET=<b>\n
\* where b decodes to the payload's bytes; Json, Yaml and Csv carry the same
\* string b under the key binary_data, never the raw bytes.
C6_BinaryBase64 ==
    (pc = "done" /\ payload.format = "Binary" /\ output_format # "Stdout") =>
        /\ Len(writes) = 1
        /\ writes[1].content # BytesContent(payload.bytes)
        /\ output_format = "Env" =>
              /\ SubSeq(writes[1].content.text, 1, 14)
                    = <<"B", "I", "N", "A", "R", "Y", "_", "S", "E", "C", "R", "E", "T", EQ>>
              /\ EndsWith(writes[1].content.text, LF)
        /\ output_format = "Json" =>
              \A po \in BOOLEAN :
                  /\ FromStr(writes[1].content.text, po).some
                  /\ KeysOf(FromStr(writes[1].content.text, po).val.members)
                        = <<(<<"b", "i", "n", "a", "r", "y", "_", "d", "a", "t", "a">>)>>
        /\ output_format = "Yaml" =>
              /\ DOMAIN writes[1].content = {"yaml"}
              /\ KeysOf(writes[1].content.yaml.members)
                    = <<(<<"b", "i", "n", "a", "r", "y", "_", "d", "a", "t", "a">>)>>
        /\ output_format = "Csv" =>
              /\ Len(CsvRecords(writes[1].content.text)) = 2
              /\ CsvRecords(writes[1].content.text)[2][1]
                    = <<"b", "i", "n", "a", "r", "y", "_", "d", "a", "t", "a">>
        /\ Carried(output_format, writes[1].content) = Base64Encode(payload.bytes)
        /\ Base64Decode(Carried(output_format, writes[1].content)) = payload.bytes

\* C6 happens: a blob of two bytes (one padding character) has been written
C6_Witness ==
    /\ Processed("Binary", "Env")
    /\ Len(payload.bytes) = 2
    /\ payload.bytes[1] # payload.bytes[2]
    /\ Len(writes) = 1 /\ writes[1].ok

\* the default file name of an output format
DefaultName(fmt) ==
    CASE fmt = "Env" -> ".env"
      [] fmt = "Json" -> "secret.json"
      [] fmt = "Yaml" -> "secret.yaml"
      [] fmt = "Csv" -> "secret.csv"
      [] fmt = "Stdout" -> "(none)"

\* the one path the invocation may write
AllowedPath == IF file.some THEN file.val ELSE DefaultName(output_format)

\* C8: a process_* call writes no file but the --file path when one is given,
\* the default name of the output format otherwise, and without --file and
\* with output Stdout it writes no file at all.
C8_OnlyTheDestination ==
    (pc = "done" /\ payload.format \in {"Json", "PlainText", "Binary"}) =>
        /\ \A i \in 1..Len(writes) : writes[i].path = AllowedPath
        /\ (~file.some /\ output_format = "Stdout") => writes = <<>>
        /\ \A p \in Paths :
              fs[p] # (IF p \in {UserPath, ".env"} THEN Some(OldContent) ELSE NONE)
                  => p = AllowedPath

\* C8 happens: a JSON secret has been written to its default file
C8_Witness ==
    /\ Processed("Json", "Yaml")
    /\ ~file.some
    /\ Len(writes) = 1 /\ writes[1].ok
    /\ fs["secret.yaml"].some

\* C9: with output Stdout and --file, the file receives the raw payload: the
\* secret string as fetched (JSON or plain text), the bytes of a blob.
C9_PreviewToFileIsRaw ==
    (pc = "done" /\ result = "Ok" /\ output_format = "Stdout" /\ file.some
        /\ payload.format \in {"Json", "PlainText", "Binary"}) =>
        fs[file.val] = Some(IF payload.format = "Binary"
                            THEN BytesContent(payload.bytes)
                            ELSE TextContent(response.secret_string.val))

\* C10 as claimed: a plain text with "=" and without newline, rendered to Env,
\* is written byte for byte.
C10_Original ==
    (ProcessedOk("PlainText", "Env") /\ Contains(payload.text, EQ)
        /\ ~Contains(payload.text, LF)) =>
        WroteText(payload.text)

\* C10 amended: a plain text with "=" and without newline, rendered to Env,
\* gets no default key; it is written up to its first "=" unchanged, then the
\* rest without its leading and trailing double quotes, then one newline.
C10_SingleLineEnv ==
    (Processed("PlainText", "Env") /\ Contains(payload.text, EQ)
        /\ ~Contains(payload.text, LF)) =>
        LET pos == CHOOSE i \in 1..Len(payload.text) :
                      payload.text[i] = EQ /\ \A j \in 1..(i - 1) : payload.text[j] # EQ
        IN WroteText(SubSeq(payload.text, 1, pos)
                     \o TrimMatches(From(payload.text, pos + 1), QUOTE) \o <<LF>>)

\* C10 happens: a single line whose value is quoted has been written
C10_Witness ==
    /\ Processed("PlainText", "Env")
    /\ Contains(payload.text, EQ)
    /\ ~Contains(payload.text, LF)
    /\ EndsWith(payload.text, QUOTE)
    /\ Len(payload.text) >= 5
    /\ Len(writes) = 1 /\ writes[1].ok

RECURSIVE SplitLF(_)
\* the pieces of a text between its "\n" characters
SplitLF(text) ==
    IF ~Contains(text, LF) THEN <<text>>
    ELSE LET i == CHOOSE k \in 1..Len(text) :
                     text[k] = LF /\ \A j \in 1..(k - 1) : text[j] # LF
         IN <<SubSeq(text, 1, i - 1)>> \o SplitLF(From(text, i + 1))

\* the lines of a text K1=V1\nK2=V2..., a final "\n" allowed
KVLines(text) ==
    LET raw == SplitLF(text)
    IN IF Len(raw) > 1 /\ raw[Len(raw)] = <<>> THEN SubSeq(raw, 1, Len(raw) - 1) ELSE raw

\* the index of the first "=" of a line that has one
EqPos(line) == CHOOSE i \in 1..Len(line) : line[i] = EQ /\ \A j \in 1..(i - 1) : line[j] # EQ
KeyOf(line) == SubSeq(line, 1, EqPos(line) - 1)
ValOf(line) == From(line, EqPos(line) + 1)

\* the text has the form K1=V1\nK2=V2...: two lines or more, "=" in each
IsKVText(text) ==
    /\ Len(KVLines(text)) >= 2
    /\ \A i \in 1..Len(KVLines(text)) : Contains(KVLines(text)[i], EQ)

\* a value inside a pair of double quotes
Wrapped(v) == Len(v) >= 2 /\ v[1] = QUOTE /\ v[Len(v)] = QUOTE

\* a key the strict parsing takes as it stands: not empty, no blank at either
\* end, no # in front
PlainKey(k) == k # <<>> /\ Trim(k) = k /\ ~StartsWith(k, HASH)

\* a value the renderers take as it stands: no blank and no double quote at
\* either end
PlainValue(v) == Trim(v) = v /\ ~StartsWith(v, QUOTE) /\ ~EndsWith(v, QUOTE)

\* what C2 says of a text of the form: Env writes the lines and one final
\* newline, Csv the header and one row per line with the line's key and value
C2_Renders(text) ==
    /\ output_format = "Env" => WroteText(JoinWith(KVLines(text), <<LF>>) \o <<LF>>)
    /\ output_format = "Csv" =>
          /\ Len(writes) = 1
          /\ CsvRecords(writes[1].content.text)
                = << <<(<<"k", "e", "y">>), (<<"v", "a", "l", "u", "e">>)>> >>
                  \o [i \in 1..Len(KVLines(text)) |->
                         <<KeyOf(KVLines(text)[i]), ValOf(KVLines(text)[i])>>]

\* C2 as claimed: for every text K1=V1\nK2=V2... whose values are not wrapped
\* in quotes.
C2_Original ==
    (pc = "done" /\ result = "Ok" /\ payload.format = "PlainText"
        /\ IsKVText(payload.text)
        /\ \A i \in 1..Len(KVLines(payload.text)) : ~Wrapped(ValOf(KVLines(payload.text)[i])))
        => C2_Renders(payload.text)

\* C2 amended: for every text K1=V1\nK2=V2... whose keys are not empty, do not
\* start with # and have no blank at either end, and whose values have neither
\* a blank nor a double quote at either end, Env writes the same lines and
\* exactly one final newline, and Csv writes the header key,value and one row
\* per line with that line's key and value.
C2_KeyValueText ==
    (pc = "done" /\ payload.format = "PlainText"
        /\ IsKVText(payload.text)
        /\ \A i \in 1..Len(KVLines(payload.text)) :
              /\ PlainKey(KeyOf(KVLines(payload.text)[i]))
              /\ PlainValue(ValOf(KVLines(payload.text)[i])))
        => C2_Renders(payload.text)

\* C2 happens: two plain lines, a comma in a value, have been written as CSV
C2_Witness ==
    /\ Processed("PlainText", "Csv")
    /\ IsKVText(payload.text)
    /\ \A i \in 1..Len(KVLines(payload.text)) :
          /\ PlainKey(KeyOf(KVLines(payload.text)[i]))
          /\ PlainValue(ValOf(KVLines(payload.text)[i]))
    /\ Contains(payload.text, COMMA)
    /\ Len(writes) = 1 /\ writes[1].ok

\* the entries of a JSON object: each member's key and its value as text
EntriesOf(json) ==
    [i \in 1..Len(json.members) |->
        <<json.members[i].key, ValueStr(json.members[i].value)>>]

\* the set of the pairs of a sequence of pairs
PairSet(pairs) == {pairs[i] : i \in 1..Len(pairs)}

\* extract(classify(text)): the pairs parse_env_vars finds in the text as
\* detect_secret_format hands it on
Extracted(text, po) ==
    LET d == detect_secret_format(text, po)
        env_vars == parse_env_vars(d.text, po)
    IN IF d.format = "PlainText"
       THEN {<<env_vars[i].key, env_vars[i].value.s>> : i \in 1..Len(env_vars)}
       ELSE {}

\* no "=" and no newline in any key or value
NoEqNoNewline(pairs) ==
    \A i \in 1..Len(pairs) : \A j \in 1..2 :
        ~Contains(pairs[i][j], EQ) /\ ~Contains(pairs[i][j], LF)

\* the Env rendering of the payload, classified and parsed, gives the
\* payload's pairs back
C3_RoundTrip ==
    /\ Len(writes) = 1
    /\ \A po \in BOOLEAN :
          Extracted(writes[1].content.text, po) = PairSet(EntriesOf(payload.json))

\* C3 as claimed: for all entries whose keys and values have no "=" and no
\* newline.
C3_Original ==
    (ProcessedOk("Json", "Env") /\ IsObject(payload.json)
        /\ NoEqNoNewline(EntriesOf(payload.json)))
        => C3_RoundTrip

\* C3 amended: for all entries whose keys and values have no "=" and no
\* newline, whose keys are not empty, do not start with # and have no blank
\* at either end, and whose values have neither a blank nor a double quote at
\* either end, the Env rendering classified by detect_secret_format and
\* parsed by parse_env_vars gives exactly the same set of (key, value) pairs.
C3_EnvRoundTrip ==
    (Processed("Json", "Env") /\ IsObject(payload.json)
        /\ NoEqNoNewline(EntriesOf(payload.json))
        /\ \A i \in 1..Len(payload.json.members) :
              /\ PlainKey(EntriesOf(payload.json)[i][1])
              /\ PlainValue(EntriesOf(payload.json)[i][2]))
        => C3_RoundTrip

\* C3 happens: two such entries, one with a comma and a quote inside its
\* value, have been rendered to Env
C3_Witness ==
    /\ ProcessedOk("Json", "Env") /\ IsObject(payload.json)
    /\ Len(payload.json.members) = 2
    /\ NoEqNoNewline(EntriesOf(payload.json))
    /\ \A i \in 1..2 :
          /\ PlainKey(EntriesOf(payload.json)[i][1])
          /\ PlainValue(EntriesOf(payload.json)[i][2])
    /\ \E i \in 1..2 : Contains(EntriesOf(payload.json)[i][2], QUOTE)
    /\ C3_RoundTrip

RECURSIVE Doubled(_)
\* a value with each of its double quotes written twice
Doubled(v) ==
    IF v = <<>> THEN <<>>
    ELSE (IF Head(v) = QUOTE THEN <<QUOTE, QUOTE>> ELSE <<Head(v)>>) \o Doubled(Tail(v))

\* a value that CSV has to quote
HasSpecial(v) == Contains(v, COMMA) \/ Contains(v, QUOTE) \/ Contains(v, LF)

RECURSIVE TextEntries(_)
\* the entries of key=value text: for each line that is neither blank nor a
\* comment and has "=" after a key, the key and the value as the converters
\* read them
TextEntries(lines) ==
    IF lines = <<>> THEN <<>>
    ELSE LET trimmed == Trim(Head(lines))
         IN (IF trimmed # <<>> /\ ~StartsWith(trimmed, HASH) /\ Contains(trimmed, EQ)
                 /\ Trim(KeyOf(trimmed)) # <<>>
             THEN << <<Trim(KeyOf(trimmed)), TrimMatches(Trim(ValOf(trimmed)), QUOTE)>> >>
             ELSE <<>>)
            \o TextEntries(Tail(lines))

\* the rows a payload gives the CSV renderer, a JSON member's value passed
\* through strip
CsvEntries(strip(_)) ==
    CASE payload.format = "Json" /\ IsObject(payload.json) ->
            [i \in 1..Len(payload.json.members) |->
                <<EntriesOf(payload.json)[i][1], strip(EntriesOf(payload.json)[i][2])>>]
      [] payload.format = "Json" /\ ~IsObject(payload.json) ->
            << <<ValueKey, JsonToString(payload.json)>> >>
      [] payload.format = "PlainText" /\ IsEnvFormat(payload.text) ->
            TextEntries(Lines(payload.text))
      [] payload.format = "PlainText" /\ ~IsEnvFormat(payload.text) ->
            << <<ValueKey, payload.text>> >>
      [] payload.format = "Binary" ->
            << <<BinaryDataKey, Base64Encode(payload.bytes)>> >>

\* the written CSV has a row per entry, in order, that reads back as the
\* entry's key and value, and a value with a comma, a double quote or a
\* newline stands in the text as a quoted field
CsvCarries(entries) ==
    /\ Len(writes) = 1
    /\ LET records == CsvRecords(writes[1].content.text)
       IN /\ Len(records) = 1 + Len(entries)
          /\ records[1] = <<(<<"k", "e", "y">>), ValueKey>>
          /\ \A i \in 1..Len(entries) :
                /\ records[i + 1] = entries[i]
                /\ HasSpecial(entries[i][2]) =>
                      ContainsStr(writes[1].content.text,
                                  <<COMMA, QUOTE>> \o Doubled(entries[i][2]) \o <<QUOTE, LF>>)

SameValue(v) == v
QuotesOff(v) == TrimMatches(v, QUOTE)

\* C4 as claimed: the field read back is the original value of the entry.
C4_Original ==
    (pc = "done" /\ result = "Ok" /\ output_format = "Csv"
        /\ payload.format \in {"Json", "PlainText", "Binary"}
        /\ CsvEntries(SameValue) # <<>>)
        => CsvCarries(CsvEntries(SameValue))

\* C4 amended: for every payload rendered to Csv, the value of a row is the
\* entry's value with the double quotes at its two ends removed (JSON object
\* members, and key=value text, where blanks at the ends go too) or the whole
\* text (scalars; a JSON value that is no object counts as one, in its
\* serialised form); a row value with a comma, a double quote or a newline
\* is written as a quoted CSV field, and reading that field back gives
\* exactly that row value.
C4_CsvQuoting ==
    (pc = "done" /\ output_format = "Csv"
        /\ payload.format \in {"Json", "PlainText", "Binary"}
        /\ CsvEntries(QuotesOff) # <<>>)
        => CsvCarries(CsvEntries(QuotesOff))

\* C4 happens: a JSON member whose value keeps a comma and a quote after the
\* trimming has been written as a quoted field
C4_Witness ==
    /\ ProcessedOk("Json", "Csv") /\ IsObject(payload.json)
    /\ \E i \in 1..Len(payload.json.members) :
          /\ Contains(CsvEntries(QuotesOff)[i][2], COMMA)
          /\ Contains(CsvEntries(QuotesOff)[i][2], QUOTE)
    /\ CsvCarries(CsvEntries(QuotesOff))

RECURSIVE NamesOf(_)
\* the names among the entries of one page, in order
NamesOf(entries) ==
    IF entries = <<>> THEN <<>>
    ELSE (IF Head(entries).some THEN <<Head(entries).val>> ELSE <<>>) \o NamesOf(Tail(entries))

RECURSIVE DeliveredFrom(_)
\* the names the service delivers from page i on, token after token
DeliveredFrom(i) ==
    (IF store[i].secret_list.some THEN NamesOf(store[i].secret_list.val) ELSE <<>>)
    \o (IF store[i].next_token.some THEN DeliveredFrom(store[i].next_token.val) ELSE <<>>)

\* how often a name occurs in a sequence
Occurrences(names, name) == Cardinality({i \in 1..Len(names) : names[i] = name})

\* the filter keeps the name: no filter, or a substring with the same case
Keeps(name) ==
    \/ ~filter.some
    \/ \E i \in 0..(Len(name) - Len(filter.val)) :
          \A j \in 1..Len(filter.val) : name[i + j] = filter.val[j]

\* how many of the delivered names the filter keeps
RetainedCount ==
    Cardinality({i \in 1..Len(DeliveredFrom(1)) : Keeps(DeliveredFrom(1)[i])})

\* the names on the lines "- name" of the output, in the order printed
Displayed ==
    LET ix == {i \in 1..Len(stdout) : "line" \in DOMAIN stdout[i]}
    IN [k \in 1..Cardinality(ix) |->
           LET i == CHOOSE i \in ix : Cardinality({j \in ix : j < i}) = k - 1
           IN From(stdout[i].line, 3)]

\* C7: once list_secrets has returned Ok, the names displayed are the
\* delivered names that contain the filter (all of them without a filter),
\* each as often as it was delivered, in ascending order; the output is the
\* empty message alone iff no name is retained, and ends with a total equal to
\* the number of names displayed otherwise.
C7_ListFilteredSorted ==
    (pc = "done" /\ result = "Ok") =>
        /\ \A name \in {DeliveredFrom(1)[i] : i \in 1..Len(DeliveredFrom(1))} :
              Occurrences(Displayed, name)
                 = IF Keeps(name) THEN Occurrences(DeliveredFrom(1), name) ELSE 0
        /\ Len(Displayed) = RetainedCount
        /\ \A i \in 1..(Len(Displayed) - 1) : ~StrLess(Displayed[i + 1], Displayed[i])
        /\ (RetainedCount = 0) <=> (stdout = <<Msg("No secrets found.")>>)
        /\ RetainedCount > 0 =>
              /\ Len(stdout) = RetainedCount + 2
              /\ stdout[Len(stdout)] = MsgLen("Total secrets", Len(Displayed))

\* C7 happens: names from two pages, some kept by the filter and some not,
\* out of order as delivered, have been displayed
C7_Witness ==
    /\ pc = "done" /\ result = "Ok"
    /\ Len(store) >= 2 /\ Len(requests) = Len(store)
    /\ filter.some
    /\ RetainedCount >= 2 /\ RetainedCount < Len(DeliveredFrom(1))
    /\ store[1].secret_list.some /\ store[2].secret_list.some
    /\ \E i \in 1..Len(store[1].secret_list.val), j \in 1..Len(store[2].secret_list.val) :
          /\ store[1].secret_list.val[i].some /\ store[2].secret_list.val[j].some
          /\ Keeps(store[1].secret_list.val[i].val) /\ Keeps(store[2].secret_list.val[j].val)
          /\ StrLess(store[2].secret_list.val[j].val, store[1].secret_list.val[i].val)
    /\ Len(Displayed) = RetainedCount

\* the file system as it was before the command ran
FsBefore == [p \in Paths |-> IF p \in {UserPath, ".env"} THEN Some(OldContent) ELSE NONE]

\* C11: a JSON payload that is no object, rendered to Env with or without
\* --file, has the not-a-valid-object message printed and nothing else, no
\* write attempted, every file as it was, and Ok returned.
C11_NotAnObjectEnv ==
    (Processed("Json", "Env") /\ ~IsObject(payload.json)) =>
        /\ stdout = <<Msg("The secret is not a valid JSON object.")>>
        /\ writes = <<>>
        /\ fs = FsBefore
        /\ result = "Ok"

\* C11 happens: an array has been rendered to Env with a --file path that
\* held a file
C11_Witness ==
    /\ Processed("Json", "Env")
    /\ payload.json.t = "array"
    /\ file = Some(UserPath)
    /\ fs[UserPath] = Some(OldContent)
    /\ stdout # <<>>

\* the object {"value": text}
ValueObject(text) == JObject(<<Member(<<"v", "a", "l", "u", "e">>, JString(text))>>)

\* the CSV written is the header and the one row value,<text>
ScalarRow(text) ==
    /\ Len(writes) = 1
    /\ SubSeq(writes[1].content.text, 1, 16)
          = <<"k", "e", "y", COMMA, "v", "a", "l", "u", "e", LF,
              "v", "a", "l", "u", "e", COMMA>>
    /\ CsvRecords(writes[1].content.text)
          = << <<(<<"k", "e", "y">>), (<<"v", "a", "l", "u", "e">>)>>,
               <<(<<"v", "a", "l", "u", "e">>), text>> >>

\* C12 as claimed: a JSON payload that is no object is written by Json and
\* Yaml as {"value": <text>} and by Csv as the header and the row value,<text>,
\* the text being the payload's serialisation.
C12_Original ==
    (pc = "done" /\ result = "Ok" /\ payload.format = "Json" /\ ~IsObject(payload.json)) =>
        /\ output_format = "Json" =>
              /\ Len(writes) = 1
              /\ \A po \in BOOLEAN :
                    FromStr(writes[1].content.text, po)
                       = Some(ValueObject(JsonToString(payload.json)))
        /\ output_format = "Yaml" =>
              /\ Len(writes) = 1
              /\ writes[1].content = YamlContent(ValueObject(JsonToString(payload.json)))
        /\ output_format = "Csv" => ScalarRow(JsonToString(payload.json))

\* C12 amended: for a JSON payload that is no object only Csv falls back to
\* scalar handling, with the header and the one row value,<text>, the text
\* being the compact serialisation of the payload; Json writes the payload
\* itself (the file parses back to it, no value member around it) and Yaml
\* serialises the payload itself.
C12_NonObjectRenderers ==
    (pc = "done" /\ payload.format = "Json" /\ ~IsObject(payload.json)) =>
        /\ output_format = "Json" =>
              /\ Len(writes) = 1
              /\ \A po \in BOOLEAN :
                    FromStr(writes[1].content.text, po) = Some(payload.json)
        /\ output_format = "Yaml" =>
              /\ Len(writes) = 1
              /\ writes[1].content = YamlContent(payload.json)
        /\ output_format = "Csv" => ScalarRow(JsonToString(payload.json))

\* C12 happens: an array has been written as JSON
C12_Witness ==
    /\ ProcessedOk("Json", "Json")
    /\ payload.json.t = "array"
    /\ Len(writes) = 1 /\ writes[1].ok
    /\ FromStr(writes[1].content.text, TRUE) = Some(payload.json)

RECURSIVE ClaimedEntries(_)
\* the entries C13 describes: blank and # lines dropped after trimming, the
\* line split at its first "=", key and value trimmed, an empty key dropped,
\* one layer of surrounding double quotes taken off the value
ClaimedEntries(lines) ==
    IF lines = <<>> THEN <<>>
    ELSE LET trimmed == Trim(Head(lines))
         IN (IF trimmed # <<>> /\ ~StartsWith(trimmed, HASH) /\ Contains(trimmed, EQ)
                 /\ Trim(KeyOf(trimmed)) # <<>>
             THEN << <<Trim(KeyOf(trimmed)), StripOneLayer(Trim(ValOf(trimmed)))>> >>
             ELSE <<>>)
            \o ClaimedEntries(Tail(lines))

\* the (key, value) pairs of the members of an object with string values
MemberPairs(members) == {<<members[i].key, members[i].value.s>> : i \in 1..Len(members)}

\* the (key, value) pairs the written file holds, by output format
WrittenPairs ==
    CASE output_format = "Json" ->
            MemberPairs(FromStr(writes[1].content.text, TRUE).val.members)
      [] output_format = "Yaml" -> MemberPairs(writes[1].content.yaml.members)
      [] output_format = "Csv" ->
            LET records == CsvRecords(writes[1].content.text)
            IN {records[i] : i \in 2..Len(records)}

\* C13: for a plain text with "=" and a newline, the Json, the Yaml and the
\* Csv output hold the same (key, value) pairs, those of the entries derived
\* by the one set of rules.
C13_SameEntries ==
    (pc = "done" /\ result = "Ok" /\ payload.format = "PlainText"
        /\ Contains(payload.text, EQ) /\ Contains(payload.text, LF)
        /\ output_format \in {"Json", "Yaml", "Csv"}) =>
        /\ Len(writes) = 1
        /\ WrittenPairs = PairSet(ClaimedEntries(Lines(payload.text)))

\* C14: once get_secret has returned, a response with a secret string was
\* handled as JSON, with the parsed value, iff the string parses as a JSON
\* document and as plain text, with the string itself, otherwise, a blob
\* beside it or not; a response with a blob alone was handled as binary; a
\* response with neither wrote nothing and returned Ok.  Classifying is never
\* what fails: without a classified payload the request itself failed, and an
\* error after classifying is the error of a write.
C14_OnePath ==
    pc = "done" =>
        /\ payload.format = "unset" =>
              result = "Err" /\ writes = <<>> /\ stdout = <<>>
        /\ (payload.format # "unset" /\ result = "Err") =>
              Len(writes) = 1 /\ ~writes[1].ok
        /\ (payload.format # "unset" /\ response.secret_string.some) =>
              IF FromStr(response.secret_string.val, TRUE).some
              THEN /\ payload.format = "Json"
                   /\ \E po \in BOOLEAN :
                         payload.json = FromStr(response.secret_string.val, po).val
              ELSE payload = [format |-> "PlainText", text |-> response.secret_string.val]
        /\ (payload.format # "unset" /\ ~response.secret_string.some
                /\ response.secret_binary.some) =>
              payload = [format |-> "Binary", bytes |-> response.secret_binary.val]
        /\ (payload.format # "unset" /\ ~response.secret_string.some
                /\ ~response.secret_binary.some) =>
              /\ payload.format = "Empty"
              /\ writes = <<>> /\ fs = FsBefore /\ result = "Ok"

\* C14 happens: a response with a JSON string and a blob has been processed
C14_Witness ==
    /\ pc = "done"
    /\ response.secret_string.some /\ response.secret_binary.some
    /\ payload.format = "Json"
    /\ result = "Ok"

\* one step of a command, as C15 allows it
OneWriteStep ==
    \* at most one write is ever attempted, and none after another
    /\ Len(writes') <= 1
    /\ writes' # writes => writes = <<>>
    \* a write that fails ends the call with the error, nothing printed
    /\ (writes' # writes /\ ~writes'[1].ok) =>
          pc' = "done" /\ result' = "Err" /\ stdout' = stdout /\ fs' = fs
    \* after a failed write nothing happens any more
    /\ (writes # <<>> /\ ~writes[1].ok) =>
          writes' = writes /\ stdout' = stdout /\ fs' = fs /\ result' = result
    \* a line is printed by a call that writes only once its write is done and
    \* has succeeded
    /\ (stdout' # stdout /\ writes' # <<>>) =>
          /\ writes' = writes /\ writes[1].ok
          /\ fs[writes[1].path] = Some(writes[1].content)
          /\ result' = "Ok"

\* C15: a process_* call attempts one file write at most; when the write fails
\* the call returns the error, prints nothing and writes nothing more; a
\* success message is printed only after the write has succeeded.
C15_OneWriteNoRetry == [][OneWriteStep]_vars

\* C15 happens: the write of a plain-text secret has failed and the command
\* has returned the error
C15_Witness ==
    /\ pc = "done" /\ payload.format = "PlainText"
    /\ Len(writes) = 1 /\ ~writes[1].ok
    /\ result = "Err"
    /\ stdout = <<>>
    /\ fs = FsBefore

\* the page that answers a request sent with this token
AnsweredBy(token) == store[IF token.some THEN token.val ELSE 1]

RECURSIVE ChainFrom(_)
\* how many pages the service delivers from page i on, up to the first
\* without a token
ChainFrom(i) == 1 + (IF store[i].next_token.some THEN ChainFrom(store[i].next_token.val) ELSE 0)

\* the pages the loop has still to fetch
PagesLeft == ChainFrom(1) - Len(requests)

\* one step of list_secrets, as C16 allows it
PagingStep ==
    \* one request a step, sent with the token of the response before it, the
    \* first without a token
    /\ requests' # requests =>
          /\ Len(requests') = Len(requests) + 1
          /\ SubSeq(requests', 1, Len(requests)) = requests
          /\ requests'[Len(requests')]
                = IF requests = <<>> THEN NONE
                  ELSE AnsweredBy(requests[Len(requests)]).next_token
    \* the loop goes on after a response with a token and ends, and displays,
    \* at the first response without
    /\ (requests' # requests /\ result' # "Err") =>
          IF AnsweredBy(requests'[Len(requests')]).next_token.some
          THEN pc' = "paging" /\ stdout' = <<>>
          ELSE pc' = "done" /\ result' = "Ok" /\ stdout' # <<>>
    \* a failed request ends the listing with nothing displayed
    /\ result' = "Err" => pc' = "done" /\ stdout' = <<>>
    \* nothing is requested or displayed once the listing has ended
    /\ pc = "done" => requests' = requests /\ stdout' = stdout
    \* every turn of the loop that does not end it leaves fewer pages to fetch
    /\ pc' # "done" => PagesLeft' < PagesLeft /\ PagesLeft' >= 0

\* C16: list_secrets sends its requests one at a time, each with the token of
\* the response before it and the first without one, goes on exactly until a
\* response carries no token, and so comes to an end, the store delivering
\* such a response after finitely many pages (while the listing has not ended
\* there is a page left to fetch, and every turn of the loop that does not
\* end it leaves fewer); a request that fails ends the listing with an error
\* and nothing displayed.
C16_Pagination ==
    /\ [](pc # "done" => PagesLeft > 0)
    /\ [][PagingStep]_vars

\* C16 happens: a listing has ended after two requests or more, leaving a
\* page of the store that no token led to
C16_Witness ==
    /\ pc = "done" /\ result = "Ok"
    /\ Len(requests) >= 2
    /\ Len(store) > Len(requests)
    /\ requests[1] = NONE /\ requests[2] = Some(2)

\* what the call would do for the same payload and output format had --file
\* been given when it was not, and not given when it was
OtherBranch(po) ==
    LET f == IF file.some THEN NONE ELSE Some(UserPath)
    IN CASE payload.format = "Json" -> process_json_secret(payload.json, output_format, f)
         [] payload.format = "PlainText" ->
               process_plain_text_secret(payload.text, output_format, f, po)
         [] payload.format = "Binary" ->
               process_binary_secret(payload.bytes, output_format, f)

\* C17: for every payload and every output format but Stdout, the call writes
\* a file with --file iff it writes one without, and the content written is
\* the same (in one build of serde_json); the two branches differ in the
\* destination only.
C17_BranchesAgree ==
    (pc = "done" /\ payload.format \in {"Json", "PlainText", "Binary"}
        /\ output_format # "Stdout") =>
        \E po \in BOOLEAN :
            /\ (writes # <<>>) = OtherBranch(po).write.some
            /\ writes # <<>> =>
                  /\ writes[1].content = OtherBranch(po).write.val.content
                  /\ writes[1].path # OtherBranch(po).write.val.path

\* C17 happens: key=value text has been written as JSON to the --file path
C17_Witness ==
    /\ ProcessedOk("PlainText", "Json")
    /\ file = Some(UserPath)
    /\ IsEnvFormat(payload.text)
    /\ Len(writes) = 1 /\ writes[1].path = UserPath
    /\ OtherBranch(TRUE).write.val.path = "secret.json"

====
